---- MODULE Spec2Model ----
(***************************************************************************)
(* Model of fsutil's copy protocol (copy.go): Send and Receive exchanging  *)
(* Stat, Request, Data and Fin packets over a duplex ordered stream.       *)
(*                                                                         *)
(* Sender tasks:   the main loop (sender.run), the emission task           *)
(*                 (sender.send) and one content task per accepted Request *)
(*                 (sender.sendFile / fileSender.Write).                   *)
(* Receiver tasks: the main loop (receiver.run), the diff task (the        *)
(*                 goroutine around doubleWalkDiff), one fetch callback    *)
(*                 per fetched path (getAsyncDataFunc) and the Fin task.   *)
(*                                                                         *)
(* Walk, doubleWalkDiff and DiskWriter are collaborators whose code is not *)
(* part of copy.go; they are modelled at their interface.                  *)
(***************************************************************************)
EXTENDS Naturals, Sequences, FiniteSets, TLC

\* ------------------------------------------------------------------ bounds
\* Largest number of entries the walk of the source tree yields.
MaxEntries == 2
\* Largest number of non-empty chunks (buffer-fulls) of one regular file.
MaxChunks == 2
\* Messages the transport buffers in one direction before SendMsg blocks.
WireCap == 2
\* Faults (walk, diff, I/O, transport-send errors) injected in one behaviour.
MaxFaults == 1
\* Requests a peer that is not this Receive puts on the stream (SpecPeer).
MaxInject == 1
\* Capacity of receiver.walkChan.
WalkChanCap == 128

\* ------------------------------------------------------------------- state
VARIABLES
    tree,       \* the source tree as the walk yields it: entry k has path k
    faults,     \* faults injected so far
    injected,   \* Requests put on the stream by a foreign peer so far
    \* ---- sender
    sFiles,     \* sender.files: id -> path
    sI,         \* the counter i of sender.send
    ePc,        \* emission task: "walk","send","insend","last","inlast","done","err"
                \* (and "prog","progst","progcb" inside updateProgress)
    sPc,        \* sender.run: "recv","fin","infin","ret" (Send has returned)
                \* (and "prog","progst","progcb" inside the deferred updateProgress)
    sRet,       \* what Send returned: "none" while running
    sErrId,     \* the id named by Send's "invalid file id" error
    cTask,      \* content tasks: id -> [pc, k, opened]
    sInside,    \* sender tasks inside the transport's SendMsg
    \* ---- the two directions of the stream
    s2r,        \* sender -> receiver, in order
    r2s,        \* receiver -> sender, in order
    \* ---- receiver
    rFiles,     \* receiver.files: path -> id
    rI,         \* the counter i of receiver.run
    rPc,        \* receiver.run: "recv","write","waitDone","ret"
    rRet,       \* what Receive returned
    rCur,       \* the Data packet the main loop is writing into a pipe
    walkChan,   \* receiver.walkChan
    walkClosed, \* close(r.walkChan) happened
    dPc,        \* diff task: "run", "done" (walkDone closed)
    dErr,       \* doubleWalkDiff returned an error
    pipes,      \* receiver.pipes: id -> [closed]
    fetch,      \* fetch callbacks: path -> [pc, id]
    cbErr,      \* paths whose fetch callback returned "invalid file request"
    dest,       \* destination files: path -> [data, closed]
    finPc,      \* Fin task: "none","wait","insend","done","err"
    rInside,    \* receiver tasks inside the transport's SendMsg
    \* ---- history of what was put on the wire
    statLog,    \* the ids of the Stat messages with metadata, in send order
    reqLog,     \* the ids of the Request messages of the receiver, in send order
    sentData,   \* id -> the payloads of the Data messages sent for id
    sinkData,   \* id -> the payloads written into id's sink
    sFinRecv,   \* the sender's main loop received a Fin
    sFinSent,   \* the sender put its Fin on the wire
    rFinSent,   \* the receiver put its Fin on the wire
    rFinRecv,   \* the receiver's main loop received a Fin
    \* ---- progress (sender)
    progressCb,      \* Send was given a progress callback (progressCb != nil)
    progressCurrent, \* sender.progressCurrent
    pLoad,      \* sender task -> the value it read for `progressCurrent += size`
    cbPrev,     \* the count the callback was last invoked with
    cbFinals,   \* invocations of the callback with last = true so far
    cbLastFinal \* the latest invocation of the callback had last = true

senderVars == <<sFiles, sI, ePc, sPc, sRet, sErrId, cTask, sInside>>
receiverVars == <<rFiles, rI, rPc, rRet, rCur, walkChan, walkClosed, dPc, dErr,
                  pipes, fetch, cbErr, dest, finPc, rInside>>
logVars == <<statLog, reqLog, sentData, sinkData, sFinRecv, sFinSent,
             rFinSent, rFinRecv>>
progVars == <<progressCb, progressCurrent, pLoad, cbPrev, cbFinals, cbLastFinal>>
vars == <<tree, progVars, faults, injected, senderVars, s2r, r2s, receiverVars,
          logVars>>

\* ----------------------------------------------------------------- helpers
Range(s) == {s[k] : k \in DOMAIN s}

Remove(f, x) == [y \in DOMAIN f \ {x} |-> f[y]]

IsPrefix(s, t) == Len(s) <= Len(t) /\ \A k \in 1..Len(s) : s[k] = t[k]

NonEmpty(s) == SelectSeq(s, LAMBDA d : d # <<>>)

\* The bytes of the regular file at path p, one element per buffer-full.
Content(p) == [j \in 1..tree[p].size |-> <<p, j>>]

\* The shapes a walked entry can have.
EntryShapes ==
    {[kind |-> k, size |-> 0] : k \in {"dir", "symlink"}}
        \cup {[kind |-> "file", size |-> n] : n \in 0..MaxChunks}

Trees == UNION {[1..n -> EntryShapes] : n \in 0..MaxEntries}

\* The ids and the paths of the entries of a tree.
Ids == 0..(MaxEntries - 1)
Paths == 1..MaxEntries

\* Packets (Packet.Type, ID, Data, Stat); path = 0 is a Stat without metadata.
StatMsg(p, k) ==
    [type |-> "stat", id |-> 0, path |-> p, kind |-> k, data |-> <<>>]
ReqMsg(id) ==
    [type |-> "req", id |-> id, path |-> 0, kind |-> "", data |-> <<>>]
DataMsg(id, d) ==
    [type |-> "data", id |-> id, path |-> 0, kind |-> "", data |-> d]
FinMsg ==
    [type |-> "fin", id |-> 0, path |-> 0, kind |-> "", data |-> <<>>]

\* ------------------------------------------------------ synchronized stream
\* A stream whose SendMsg takes no lock.
SendMsgUnlocked(inside) == TRUE

\* syncStream.SendMsg: ss.mu.Lock() lets a task into Stream.SendMsg only when
\* no other task of the endpoint is inside it.
SendMsgMayEnter(inside) == inside = {}

\* The transport takes a message when it has room for it.
WireHasRoom(w) == Len(w) < WireCap

CanFault == faults < MaxFaults

\* A step that turns wire w into w2 put a Fin on it.
PutsFin(w, w2) == Len(w2) = Len(w) + 1 /\ w2[Len(w2)].type = "fin"

\* -------------------------------------------------------------------- Init
\* The state after Send and Receive built their sender and receiver; cb tells
\* whether Send was given a progress callback.
Start(cb) ==
    /\ tree \in Trees
    /\ progressCb = cb
    /\ progressCurrent = 0
    /\ pLoad = <<>>
    /\ cbPrev = 0
    /\ cbFinals = 0
    /\ cbLastFinal = FALSE
    /\ faults = 0
    /\ injected = 0
    /\ sFiles = <<>>
    /\ sI = 0
    /\ ePc = IF Len(tree) = 0 THEN "last" ELSE "walk"
    /\ sPc = "recv"
    /\ sRet = "none"
    /\ sErrId = 0
    /\ cTask = <<>>
    /\ sInside = {}
    /\ s2r = <<>>
    /\ r2s = <<>>
    /\ rFiles = <<>>
    /\ rI = 0
    /\ rPc = "recv"
    /\ rRet = "none"
    /\ rCur = FinMsg
    /\ walkChan = <<>>
    /\ walkClosed = FALSE
    /\ dPc = "run"
    /\ dErr = FALSE
    /\ pipes = <<>>
    /\ fetch = <<>>
    /\ cbErr = {}
    /\ dest = <<>>
    /\ finPc = "none"
    /\ rInside = {}
    /\ statLog = <<>>
    /\ reqLog = <<>>
    /\ sentData = <<>>
    /\ sinkData = <<>>
    /\ sFinRecv = FALSE
    /\ sFinSent = FALSE
    /\ rFinSent = FALSE
    /\ rFinRecv = FALSE

\* Send without a progress callback (progressCb == nil).
Init == Start(FALSE)

\* Send with a progress callback.
InitProgress == Start(TRUE)

\* ------------------------------------------------------------------ sender
EmitTask == <<"emit", 0>>
SMainTask == <<"main", 0>>
ContentTask(id) == <<"content", id>>

\* What the emission task does after a Stat with metadata went out: the walk
\* yields the next entry, or it is over and the last Stat is due.
AfterStat(i) == IF i = Len(tree) THEN "last" ELSE "walk"

\* updateProgress does nothing when Send was given no callback: the task that
\* calls it goes on at pc.
BeforeProgress(pc) == IF progressCb THEN "prog" ELSE pc

\* A walk callback that does not record the entry.
RecordSkipped(files, i, p) == files

\* s.files[i] = stat.Path
RecordEntry(files, i, p) == (i :> p) @@ files

\* sender.send, the walk callback up to s.mu.Unlock(): the entry the walk
\* yields gets the next id and is recorded in the transfer table, whatever
\* its type.  A walk that finds the context cancelled (Send has returned)
\* returns the context's error instead of yielding the entry.
EWalk ==
    /\ ePc = "walk"
    /\ sI < Len(tree)
    /\ IF sPc = "ret"
         THEN /\ ePc' = "err"
              /\ UNCHANGED <<sFiles, sI>>
         ELSE /\ sFiles' = RecordEntry(sFiles, sI, sI + 1)
              /\ sI' = sI + 1
              /\ ePc' = BeforeProgress("send")
    /\ UNCHANGED <<tree, progVars, faults, injected, sPc, sRet, sErrId, cTask, sInside,
                   s2r, r2s,
                   receiverVars, logVars>>

\* The walk hands the callback an error (or an entry without stat info): the
\* callback returns it, Walk returns it, send() returns it to nobody.
EWalkErr ==
    /\ ePc = "walk"
    /\ CanFault
    /\ faults' = faults + 1
    /\ ePc' = "err"
    /\ UNCHANGED <<tree, progVars, injected, sFiles, sI, sPc, sRet, sErrId, cTask,
                   sInside, s2r,
                   r2s, receiverVars, logVars>>

\* s.conn.SendMsg(p) of the emission task: through the stream's lock.
ESendEnter ==
    /\ ePc \in {"send", "last"}
    /\ SendMsgMayEnter(sInside)
    /\ sInside' = sInside \cup {EmitTask}
    /\ ePc' = IF ePc = "send" THEN "insend" ELSE "inlast"
    /\ UNCHANGED <<tree, progVars, faults, injected, sFiles, sI, sPc, sRet, sErrId,
                   cTask, s2r,
                   r2s, receiverVars, logVars>>

\* The transport takes the Stat: of entry sI (id sI - 1), or the last one.
ESendDone ==
    /\ ePc \in {"insend", "inlast"}
    /\ WireHasRoom(s2r)
    /\ sInside' = sInside \ {EmitTask}
    /\ IF ePc = "insend"
         THEN /\ s2r' = Append(s2r, StatMsg(sI, tree[sI].kind))
              /\ statLog' = Append(statLog, sI - 1)
              /\ ePc' = AfterStat(sI)
         ELSE /\ s2r' = Append(s2r, StatMsg(0, ""))
              /\ statLog' = statLog
              /\ ePc' = "done"
    /\ UNCHANGED <<tree, progVars, faults, injected, sFiles, sI, sPc, sRet, sErrId,
                   cTask, r2s,
                   receiverVars, reqLog, sentData, sinkData, sFinRecv,
                   sFinSent, rFinSent, rFinRecv>>

\* The transport fails the Stat: the callback returns the wrapped error.
ESendFail ==
    /\ ePc \in {"insend", "inlast"}
    /\ CanFault
    /\ faults' = faults + 1
    /\ sInside' = sInside \ {EmitTask}
    /\ ePc' = "err"
    /\ UNCHANGED <<tree, progVars, injected, sFiles, sI, sPc, sRet, sErrId, cTask, s2r,
                   r2s,
                   receiverVars, logVars>>

\* A queue that leaves the entry in the table.
QueueKeepsEntry(files, id) == files

\* sender.queue(id): delete(s.files, id) once the id was found.
QueueRemoves(files, id) == Remove(files, id)

\* sender.run, one iteration of the loop: RecvMsg, then the switch.
\* (RecvMsg is not behind the stream's lock.)  When run returns, its
\* deferred s.updateProgress(0, true) runs before Send returns and cancels.
SRecv ==
    /\ sPc = "recv"
    /\ r2s # <<>>
    /\ r2s' = Tail(r2s)
    /\ LET m == Head(r2s) IN
         CASE m.type = "req" ->
                IF m.id \in DOMAIN sFiles
                  THEN /\ sFiles' = QueueRemoves(sFiles, m.id)
                       /\ cTask' = (m.id :> [pc |-> "open", k |-> 0,
                                             path |-> sFiles[m.id],
                                             opened |-> FALSE]) @@ cTask
                       /\ UNCHANGED <<sPc, sRet, sErrId, sFinRecv>>
                  ELSE /\ sRet' = "invalid file id"
                       /\ sErrId' = m.id
                       /\ sPc' = BeforeProgress("ret")
                       /\ UNCHANGED <<sFiles, cTask, sFinRecv>>
           [] m.type = "fin" ->
                /\ sPc' = "fin"
                /\ sFinRecv' = TRUE
                /\ UNCHANGED <<sFiles, cTask, sRet, sErrId>>
           [] OTHER -> UNCHANGED <<sFiles, cTask, sPc, sRet, sErrId, sFinRecv>>
    /\ UNCHANGED <<tree, progVars, faults, injected, sI, ePc, sInside, s2r, receiverVars,
                   statLog, reqLog, sentData, sinkData, sFinSent, rFinSent,
                   rFinRecv>>

\* case PACKET_FIN: return s.conn.SendMsg(&Packet{Type: PACKET_FIN}).
SFinEnter ==
    /\ sPc = "fin"
    /\ SendMsgMayEnter(sInside)
    /\ sInside' = sInside \cup {SMainTask}
    /\ sPc' = "infin"
    /\ UNCHANGED <<tree, progVars, faults, injected, sFiles, sI, ePc, sRet, sErrId,
                   cTask, s2r,
                   r2s, receiverVars, logVars>>

\* A Fin case that returns without the echo.
FinEchoSkipped(w) == w

\* The stream after the Fin echo.
FinEcho(w) == Append(w, FinMsg)

SFinDone ==
    /\ sPc = "infin"
    /\ WireHasRoom(s2r)
    /\ sInside' = sInside \ {SMainTask}
    /\ s2r' = FinEcho(s2r)
    /\ sFinSent' = (sFinSent \/ PutsFin(s2r, s2r'))
    /\ sRet' = "ok"
    /\ sPc' = BeforeProgress("ret")
    /\ UNCHANGED <<tree, progVars, faults, injected, sFiles, sI, ePc, sErrId, cTask, r2s,
                   receiverVars, statLog, reqLog, sentData, sinkData,
                   sFinRecv, rFinSent, rFinRecv>>

SFinFail ==
    /\ sPc = "infin"
    /\ CanFault
    /\ faults' = faults + 1
    /\ sInside' = sInside \ {SMainTask}
    /\ sRet' = "send error"
    /\ sPc' = BeforeProgress("ret")
    /\ UNCHANGED <<tree, progVars, injected, sFiles, sI, ePc, sErrId, cTask, s2r, r2s,
                   receiverVars, logVars>>

\* A copy that sends the first buffer-full again and again.
ChunkRepeated(t) == Content(t.path)[1]

\* The chunk the content task sends next: the file's bytes, in file order.
NextChunk(t) == Content(t.path)[t.k + 1]

\* A copy that stops after one buffer-full.
AfterChunkStops(t, k) ==
    IF k >= 1 \/ tree[t.path].size = 0 THEN "term" ELSE "send"

\* Where the content task goes after its k-th chunk went out: io.CopyBuffer
\* goes on until the file is read, then sendFile sends the zero-length Data.
AfterChunk(t, k) == IF k = tree[t.path].size THEN "term" ELSE "send"

\* sender.sendFile(id, p): os.Open.  A file that does not open is sent as
\* no content: only the zero-length Data follows.  A directory opens, and
\* the first read of io.CopyBuffer fails on it.
COpenOK(id) ==
    /\ id \in DOMAIN cTask
    /\ cTask[id].pc = "open"
    /\ cTask' = [cTask EXCEPT ![id].opened = TRUE,
                              ![id].pc = IF tree[cTask[id].path].kind = "dir"
                                           THEN "err"
                                           ELSE AfterChunk(cTask[id], 0)]
    /\ UNCHANGED <<tree, progVars, faults, injected, sFiles, sI, ePc, sPc, sRet,
                   sErrId, sInside,
                   s2r, r2s, receiverVars, logVars>>

COpenFail(id) ==
    /\ id \in DOMAIN cTask
    /\ cTask[id].pc = "open"
    /\ CanFault
    /\ faults' = faults + 1
    /\ cTask' = [cTask EXCEPT ![id].pc = "term"]
    /\ UNCHANGED <<tree, progVars, injected, sFiles, sI, ePc, sPc, sRet, sErrId,
                   sInside, s2r,
                   r2s, receiverVars, logVars>>

\* io.CopyBuffer fails to read the file: sendFile returns the error, and
\* sends nothing more for the id.
CReadErr(id) ==
    /\ id \in DOMAIN cTask
    /\ cTask[id].pc = "send"
    /\ CanFault
    /\ faults' = faults + 1
    /\ cTask' = [cTask EXCEPT ![id].pc = "err"]
    /\ UNCHANGED <<tree, progVars, injected, sFiles, sI, ePc, sPc, sRet, sErrId,
                   sInside, s2r,
                   r2s, receiverVars, logVars>>

\* fileSender.Write(dt) and the last SendMsg of sendFile: through the lock.
CSendEnter(id) ==
    /\ id \in DOMAIN cTask
    /\ cTask[id].pc \in {"send", "term"}
    /\ SendMsgMayEnter(sInside)
    /\ sInside' = sInside \cup {ContentTask(id)}
    /\ cTask' = [cTask EXCEPT ![id].pc = IF @ = "send" THEN "insend" ELSE "interm"]
    /\ UNCHANGED <<tree, progVars, faults, injected, sFiles, sI, ePc, sPc, sRet,
                   sErrId, s2r, r2s,
                   receiverVars, logVars>>

CSendDone(id) ==
    /\ id \in DOMAIN cTask
    /\ cTask[id].pc \in {"insend", "interm"}
    /\ WireHasRoom(s2r)
    /\ sInside' = sInside \ {ContentTask(id)}
    /\ LET t == cTask[id]
           d == IF t.pc = "insend" THEN NextChunk(t) ELSE <<>>
       IN /\ s2r' = Append(s2r, DataMsg(id, d))
          /\ sentData' = IF id \in DOMAIN sentData
                           THEN [sentData EXCEPT ![id] = Append(@, d)]
                           ELSE (id :> <<d>>) @@ sentData
          /\ cTask' = IF t.pc = "insend"
                        THEN [cTask EXCEPT ![id].k = t.k + 1,
                                           ![id].pc = BeforeProgress(
                                               AfterChunk(t, t.k + 1))]
                        ELSE [cTask EXCEPT ![id].pc = "done"]
    /\ UNCHANGED <<tree, progVars, faults, injected, sFiles, sI, ePc, sPc, sRet,
                   sErrId, r2s,
                   receiverVars, statLog, reqLog, sinkData, sFinRecv,
                   sFinSent, rFinSent, rFinRecv>>

\* The transport fails a Data: Write returns the error, CopyBuffer and
\* sendFile return it; the last SendMsg of sendFile returns it likewise.
CSendFail(id) ==
    /\ id \in DOMAIN cTask
    /\ cTask[id].pc \in {"insend", "interm"}
    /\ CanFault
    /\ faults' = faults + 1
    /\ sInside' = sInside \ {ContentTask(id)}
    /\ cTask' = [cTask EXCEPT ![id].pc = "err"]
    /\ UNCHANGED <<tree, progVars, injected, sFiles, sI, ePc, sPc, sRet, sErrId, s2r, r2s,
                   receiverVars, logVars>>

\* ---------------------------------------------------------------- progress
\* Packet.Size() of a Stat with metadata and of a Data with one buffer-full.
StatSize == 1
ChunkSize == 2

SenderTasks == {EmitTask, SMainTask} \cup {ContentTask(id) : id \in Ids}

\* Where a sender task is.
TaskPc(task) ==
    CASE task = EmitTask -> ePc
      [] task = SMainTask -> sPc
      [] OTHER -> IF task[2] \in DOMAIN cTask THEN cTask[task[2]].pc ELSE "none"

\* The task goes on at pc.
GoTo(task, pc) ==
    CASE task = EmitTask -> ePc' = pc /\ UNCHANGED <<sPc, cTask>>
      [] task = SMainTask -> sPc' = pc /\ UNCHANGED <<ePc, cTask>>
      [] OTHER -> /\ cTask' = [cTask EXCEPT ![task[2]].pc = pc]
                  /\ UNCHANGED <<ePc, sPc>>

\* The arguments of the task's call of updateProgress: s.updateProgress(
\* p.Size(), false) of the walk callback and of fileSender.Write, and the
\* deferred s.updateProgress(0, true) of sender.run.
ProgressSize(task) ==
    CASE task = EmitTask -> StatSize
      [] task = SMainTask -> 0
      [] OTHER -> ChunkSize

ProgressLast(task) == task = SMainTask

\* Where the task goes on after updateProgress: the walk callback sends its
\* Stat, sender.run returns, io.CopyBuffer reads on.
AfterProgress(task) ==
    CASE task = EmitTask -> "send"
      [] task = SMainTask -> "ret"
      [] OTHER -> AfterChunk(cTask[task[2]], cTask[task[2]].k)

\* updateProgress, s.progressCurrent += size, takes no lock: the task reads
\* the counter ...
ProgressRead(task) ==
    /\ TaskPc(task) = "prog"
    /\ pLoad' = (task :> progressCurrent) @@ pLoad
    /\ GoTo(task, "progst")
    /\ UNCHANGED <<tree, progressCb, progressCurrent, cbPrev, cbFinals,
                   cbLastFinal, faults, injected, sFiles, sI, sRet, sErrId,
                   sInside, s2r, r2s, receiverVars, logVars>>

\* ... and writes back what it read plus size.
ProgressWrite(task) ==
    /\ TaskPc(task) = "progst"
    /\ progressCurrent' = pLoad[task] + ProgressSize(task)
    /\ pLoad' = Remove(pLoad, task)
    /\ GoTo(task, "progcb")
    /\ UNCHANGED <<tree, progressCb, cbPrev, cbFinals, cbLastFinal, faults,
                   injected, sFiles, sI, sRet, sErrId, sInside, s2r, r2s,
                   receiverVars, logVars>>

\* updateProgress, s.progressCb(s.progressCurrent, last).
ProgressCall(task) ==
    /\ TaskPc(task) = "progcb"
    /\ cbPrev' = progressCurrent
    /\ cbLastFinal' = ProgressLast(task)
    /\ cbFinals' = IF ProgressLast(task) THEN cbFinals + 1 ELSE cbFinals
    /\ GoTo(task, AfterProgress(task))
    /\ UNCHANGED <<tree, progressCb, progressCurrent, pLoad, faults, injected,
                   sFiles, sI, sRet, sErrId, sInside, s2r, r2s, receiverVars,
                   logVars>>

\* ---------------------------------------------------------------- receiver
FetchTask(p) == <<"fetch", p>>
FinTask == <<"fin", 0>>

\* os.FileMode(p.Stat.Mode)&(ModeDir|ModeSymlink|ModeNamedPipe|ModeDevice) == 0
Fetchable(kind) == kind \notin {"dir", "symlink", "pipe", "device"}

\* A counter that skips the entries the receiver does not record.
CountFetchableOnly(i, kind) == IF Fetchable(kind) THEN i + 1 ELSE i

\* i++ of receiver.run: for every Stat with metadata.
CountStat(i, kind) == i + 1

\* An id recorded after i++.
RecordedAfterCount(i) == i + 1

\* r.files[p.Stat.Path] = i: the id recorded is the counter before i++.
RecordedId(i) == i

\* A zero-length Data that leaves the sink open.
CloseForgotten(ps, id) == ps

\* pw.Close() on the zero-length Data: the sink reaches end-of-content.
CloseSink(ps, id) == [ps EXCEPT ![id].closed = TRUE]

\* receiver.run, one iteration of the loop: RecvMsg, then the switch.
\* (A Stat with metadata after the last Stat would send on the closed
\* walkChan, which panics.)
RRecv ==
    /\ rPc = "recv"
    /\ s2r # <<>>
    /\ s2r' = Tail(s2r)
    /\ LET m == Head(s2r) IN
         CASE m.type = "stat" /\ m.path # 0 ->
                /\ Len(walkChan) < WalkChanCap
                /\ rFiles' = IF Fetchable(m.kind)
                               THEN (m.path :> RecordedId(rI)) @@ rFiles
                               ELSE rFiles
                /\ rI' = CountStat(rI, m.kind)
                /\ IF walkClosed
                     THEN /\ rRet' = "panic"
                          /\ rPc' = "ret"
                          /\ UNCHANGED walkChan
                     ELSE /\ walkChan' = Append(walkChan, [path |-> m.path,
                                                           kind |-> m.kind])
                          /\ UNCHANGED <<rPc, rRet>>
                /\ UNCHANGED <<rCur, walkClosed, pipes, sinkData, rFinRecv>>
           [] m.type = "stat" /\ m.path = 0 ->
                /\ walkClosed' = TRUE
                /\ rPc' = "waitDone"
                /\ UNCHANGED <<rFiles, rI, rRet, rCur, walkChan, pipes,
                               sinkData, rFinRecv>>
           [] m.type = "data" ->
                IF m.id \notin DOMAIN pipes
                  THEN /\ rRet' = "invalid file request"
                       /\ rPc' = "ret"
                       /\ UNCHANGED <<rFiles, rI, rCur, walkChan, walkClosed,
                                      pipes, sinkData, rFinRecv>>
                  ELSE IF m.data = <<>>
                    THEN \* pw.Close()
                         /\ pipes' = CloseSink(pipes, m.id)
                         /\ UNCHANGED <<rFiles, rI, rPc, rRet, rCur, walkChan,
                                        walkClosed, sinkData, rFinRecv>>
                    ELSE IF pipes[m.id].closed
                      THEN \* pw.Write on a closed pipe: io.ErrClosedPipe
                           /\ rRet' = "closed pipe"
                           /\ rPc' = "ret"
                           /\ UNCHANGED <<rFiles, rI, rCur, walkChan,
                                          walkClosed, pipes, sinkData, rFinRecv>>
                      ELSE \* pw.Write(p.Data): blocks until the bytes are read
                           /\ rPc' = "write"
                           /\ rCur' = m
                           /\ sinkData' = [sinkData EXCEPT ![m.id] = Append(@, m.data)]
                           /\ UNCHANGED <<rFiles, rI, rRet, walkChan,
                                          walkClosed, pipes, rFinRecv>>
           [] m.type = "fin" ->
                /\ rRet' = "ok"
                /\ rPc' = "ret"
                /\ rFinRecv' = TRUE
                /\ UNCHANGED <<rFiles, rI, rCur, walkChan, walkClosed, pipes,
                               sinkData>>
           [] OTHER -> UNCHANGED <<rFiles, rI, rPc, rRet, rCur, walkChan,
                                   walkClosed, pipes, sinkData, rFinRecv>>
    /\ UNCHANGED <<tree, progVars, faults, injected, senderVars, r2s, dPc, dErr, fetch,
                   cbErr, dest, finPc, rInside, statLog, reqLog, sentData,
                   sFinRecv, sFinSent, rFinSent>>

\* After the last Stat: <-r.walkDone, then start the Fin task.
RWalkDone ==
    /\ rPc = "waitDone"
    /\ dPc = "done"
    /\ rPc' = "recv"
    /\ finPc' = "wait"
    /\ UNCHANGED <<tree, progVars, faults, injected, senderVars, s2r, r2s, rFiles, rI,
                   rRet, rCur, walkChan, walkClosed, dPc, dErr, pipes, fetch,
                   cbErr, dest, rInside, logVars>>

\* A callback that leaves the path in the pending table.
KeepPending(files, p) == files

\* delete(r.files, p) once the id of p was found.
TakePending(files, p) == Remove(files, p)

\* The asyncDataFunc, from its start to r.muPipes.Unlock(): look the path up
\* in the pending table, remove it, make the pipe and register its writer.
\* The callback that finds no id returns "invalid file request".
StartFetch(p) ==
    IF p \in DOMAIN rFiles
      THEN /\ rFiles' = TakePending(rFiles, p)
           /\ pipes' = (rFiles[p] :> [closed |-> FALSE]) @@ pipes
           /\ sinkData' = (rFiles[p] :> <<>>) @@ sinkData
           /\ fetch' = (p :> [pc |-> "req", id |-> rFiles[p]]) @@ fetch
           /\ dest' = (p :> [data |-> <<>>, closed |-> FALSE]) @@ dest
           /\ UNCHANGED cbErr
      ELSE /\ cbErr' = cbErr \cup {p}
           /\ UNCHANGED <<rFiles, pipes, sinkData, fetch, dest>>

\* The diff task takes the next forwarded entry; the diff primitive decides
\* whether its content is fetched, and the disk writer starts the callback
\* for a regular file it fetches.
DStep ==
    /\ dPc = "run"
    /\ walkChan # <<>>
    /\ walkChan' = Tail(walkChan)
    /\ \E get \in BOOLEAN :
         IF get /\ Fetchable(Head(walkChan).kind)
           THEN StartFetch(Head(walkChan).path)
           ELSE UNCHANGED <<rFiles, pipes, sinkData, fetch, dest, cbErr>>
    /\ UNCHANGED <<tree, progVars, faults, injected, senderVars, s2r, r2s, rI, rPc, rRet,
                   rCur, walkClosed, dPc, dErr, finPc, rInside, statLog,
                   reqLog, sentData, sFinRecv, sFinSent, rFinSent, rFinRecv>>

\* The collaborators ask for the content of a path that has no pending id:
\* an entry that is no regular file, or one whose fetch already started.
DBadFetch ==
    /\ dPc = "run"
    /\ walkChan # <<>>
    /\ CanFault
    /\ faults' = faults + 1
    /\ walkChan' = Tail(walkChan)
    /\ \E p \in {Head(walkChan).path} \cup DOMAIN fetch :
         /\ p \notin DOMAIN rFiles
         /\ StartFetch(p)
    /\ UNCHANGED <<tree, progVars, injected, senderVars, s2r, r2s, rI, rPc, rRet, rCur,
                   walkClosed, dPc, dErr, finPc, rInside, statLog, reqLog,
                   sentData, sFinRecv, sFinSent, rFinSent, rFinRecv>>

\* readStat's range over r.walkChan ends once the channel is closed and
\* empty; doubleWalkDiff returns and the task closes r.walkDone.
DFinish ==
    /\ dPc = "run"
    /\ walkChan = <<>>
    /\ walkClosed
    /\ dPc' = "done"
    /\ UNCHANGED <<tree, progVars, faults, injected, senderVars, s2r, r2s, rFiles, rI,
                   rPc, rRet, rCur, walkChan, walkClosed, dErr, pipes, fetch,
                   cbErr, dest, finPc, rInside, logVars>>

\* doubleWalkDiff returns an error (of the destination walk, of the diff, of
\* HandleChange): the task drops it and closes r.walkDone.
DFail ==
    /\ dPc = "run"
    /\ CanFault
    /\ faults' = faults + 1
    /\ dPc' = "done"
    /\ dErr' = TRUE
    /\ UNCHANGED <<tree, progVars, injected, senderVars, s2r, r2s, rFiles, rI, rPc, rRet,
                   rCur, walkChan, walkClosed, pipes, fetch, cbErr, dest,
                   finPc, rInside, logVars>>

\* r.conn.SendMsg(&Packet{Type: PACKET_REQ, ID: id}) of a fetch callback.
FReqEnter(p) ==
    /\ p \in DOMAIN fetch
    /\ fetch[p].pc = "req"
    /\ SendMsgMayEnter(rInside)
    /\ rInside' = rInside \cup {FetchTask(p)}
    /\ fetch' = [fetch EXCEPT ![p].pc = "inreq"]
    /\ UNCHANGED <<tree, progVars, faults, injected, senderVars, s2r, r2s, rFiles, rI,
                   rPc, rRet, rCur, walkChan, walkClosed, dPc, dErr, pipes,
                   cbErr, dest, finPc, logVars>>

FReqDone(p) ==
    /\ p \in DOMAIN fetch
    /\ fetch[p].pc = "inreq"
    /\ WireHasRoom(r2s)
    /\ rInside' = rInside \ {FetchTask(p)}
    /\ r2s' = Append(r2s, ReqMsg(fetch[p].id))
    /\ reqLog' = Append(reqLog, fetch[p].id)
    /\ fetch' = [fetch EXCEPT ![p].pc = "copy"]
    /\ UNCHANGED <<tree, progVars, faults, injected, senderVars, s2r, rFiles, rI, rPc,
                   rRet, rCur, walkChan, walkClosed, dPc, dErr, pipes, cbErr,
                   dest, finPc, statLog, sentData, sinkData, sFinRecv,
                   sFinSent, rFinSent, rFinRecv>>

FReqFail(p) ==
    /\ p \in DOMAIN fetch
    /\ fetch[p].pc = "inreq"
    /\ CanFault
    /\ faults' = faults + 1
    /\ rInside' = rInside \ {FetchTask(p)}
    /\ fetch' = [fetch EXCEPT ![p].pc = "err"]
    /\ UNCHANGED <<tree, progVars, injected, senderVars, s2r, r2s, rFiles, rI, rPc, rRet,
                   rCur, walkChan, walkClosed, dPc, dErr, pipes, cbErr, dest,
                   finPc, logVars>>

\* io.CopyBuffer(wc, pr, buf) of a fetch callback: pr.Read takes the bytes
\* the main loop is writing (which ends that pw.Write), wc.Write puts them
\* into the destination file.
FCopy(p) ==
    /\ p \in DOMAIN fetch
    /\ fetch[p].pc = "copy"
    /\ rPc = "write"
    /\ rCur.id = fetch[p].id
    /\ rPc' = "recv"
    /\ dest' = [dest EXCEPT ![p].data = Append(@, rCur.data)]
    /\ UNCHANGED <<tree, progVars, faults, injected, senderVars, s2r, r2s, rFiles, rI,
                   rRet, rCur, walkChan, walkClosed, dPc, dErr, pipes, fetch,
                   cbErr, finPc, rInside, logVars>>

\* wc.Write fails: the callback returns the error; its pipe reader is left
\* open and unread.
FCopyFail(p) ==
    /\ p \in DOMAIN fetch
    /\ fetch[p].pc = "copy"
    /\ rPc = "write"
    /\ rCur.id = fetch[p].id
    /\ CanFault
    /\ faults' = faults + 1
    /\ rPc' = "recv"
    /\ fetch' = [fetch EXCEPT ![p].pc = "err"]
    /\ UNCHANGED <<tree, progVars, injected, senderVars, s2r, r2s, rFiles, rI, rRet,
                   rCur, walkChan, walkClosed, dPc, dErr, pipes, cbErr, dest,
                   finPc, rInside, logVars>>

\* pr.Read returns io.EOF once the writer is closed: CopyBuffer returns and
\* the callback closes the destination file.
FEof(p) ==
    /\ p \in DOMAIN fetch
    /\ fetch[p].pc = "copy"
    /\ pipes[fetch[p].id].closed
    /\ ~(rPc = "write" /\ rCur.id = fetch[p].id)
    /\ fetch' = [fetch EXCEPT ![p].pc = "done"]
    /\ dest' = [dest EXCEPT ![p].closed = TRUE]
    /\ UNCHANGED <<tree, progVars, faults, injected, senderVars, s2r, r2s, rFiles, rI,
                   rPc, rRet, rCur, walkChan, walkClosed, dPc, dErr, pipes,
                   cbErr, finPc, rInside, logVars>>

\* dw.Wait(): every callback the disk writer started has returned.
FetchesOver == \A p \in DOMAIN fetch : fetch[p].pc \in {"done", "err"}

\* The Fin task: dw.Wait(), then r.conn.SendMsg(&Packet{Type: PACKET_FIN}).
FinEnter ==
    /\ finPc = "wait"
    /\ FetchesOver
    /\ SendMsgMayEnter(rInside)
    /\ rInside' = rInside \cup {FinTask}
    /\ finPc' = "insend"
    /\ UNCHANGED <<tree, progVars, faults, injected, senderVars, s2r, r2s, rFiles, rI,
                   rPc, rRet, rCur, walkChan, walkClosed, dPc, dErr, pipes,
                   fetch, cbErr, dest, logVars>>

FinDone ==
    /\ finPc = "insend"
    /\ WireHasRoom(r2s)
    /\ rInside' = rInside \ {FinTask}
    /\ r2s' = Append(r2s, FinMsg)
    /\ rFinSent' = (rFinSent \/ PutsFin(r2s, r2s'))
    /\ finPc' = "done"
    /\ UNCHANGED <<tree, progVars, faults, injected, senderVars, s2r, rFiles, rI, rPc,
                   rRet, rCur, walkChan, walkClosed, dPc, dErr, pipes, fetch,
                   cbErr, dest, statLog, reqLog, sentData, sinkData, sFinRecv,
                   sFinSent, rFinRecv>>

FinFail ==
    /\ finPc = "insend"
    /\ CanFault
    /\ faults' = faults + 1
    /\ rInside' = rInside \ {FinTask}
    /\ finPc' = "err"
    /\ UNCHANGED <<tree, progVars, injected, senderVars, s2r, r2s, rFiles, rI, rPc, rRet,
                   rCur, walkChan, walkClosed, dPc, dErr, pipes, fetch, cbErr,
                   dest, logVars>>

\* ----------------------------------------------------------- specifications
\* The steps of an exchange in which nothing fails.
NextOK ==
    \/ EWalk \/ ESendEnter \/ ESendDone
    \/ SRecv \/ SFinEnter \/ SFinDone
    \/ \E id \in Ids : COpenOK(id) \/ CSendEnter(id) \/ CSendDone(id)
    \/ RRecv \/ RWalkDone \/ DStep \/ DFinish
    \/ \E p \in Paths : FReqEnter(p) \/ FReqDone(p) \/ FCopy(p) \/ FEof(p)
    \/ FinEnter \/ FinDone

\* The faults: of the walk, the diff, the disk writer, file I/O, the transport.
NextFault ==
    \/ EWalkErr \/ ESendFail \/ SFinFail
    \/ \E id \in Ids : COpenFail(id) \/ CReadErr(id) \/ CSendFail(id)
    \/ DBadFetch \/ DFail
    \/ \E p \in Paths : FReqFail(p) \/ FCopyFail(p)
    \/ FinFail

Next == NextOK \/ NextFault

\* Send against Receive, faults included.
Spec == Init /\ [][Next]_vars

\* A peer that is not this Receive puts a Request on the stream, for an id
\* of its choosing.
PeerRequest ==
    /\ injected < MaxInject
    /\ WireHasRoom(r2s)
    /\ injected' = injected + 1
    /\ \E id \in 0..MaxEntries : r2s' = Append(r2s, ReqMsg(id))
    /\ UNCHANGED <<tree, progVars, faults, senderVars, s2r, receiverVars, logVars>>

\* Send against a peer that may break the protocol.
SpecPeer == Init /\ [][Next \/ PeerRequest]_vars

\* A peer that is not this Send puts a Data message on the stream: for an id
\* of its choosing, with bytes or without.
PeerData ==
    /\ injected < MaxInject
    /\ WireHasRoom(s2r)
    /\ injected' = injected + 1
    /\ \E id \in 0..MaxEntries, d \in {<<>>, <<0, 0>>} :
         s2r' = Append(s2r, DataMsg(id, d))
    /\ UNCHANGED <<tree, progVars, faults, senderVars, r2s, receiverVars,
                   logVars>>

\* Receive against a peer that may break the protocol, nothing else fails.
SpecPeerData == Init /\ [][NextOK \/ PeerData]_vars

\* Send against Receive where sends on the transport succeed and the
\* sender's files may fail to open or to be read.
SpecIO ==
    Init /\ [][NextOK \/ \E id \in Ids : COpenFail(id) \/ CReadErr(id)]_vars

\* The steps of updateProgress, of any sender task.
ProgressStep ==
    \E task \in SenderTasks :
        ProgressRead(task) \/ ProgressWrite(task) \/ ProgressCall(task)

\* Send with a progress callback against Receive, faults included.
SpecProgress == InitProgress /\ [][Next \/ ProgressStep]_vars

\* Send with a progress callback against Receive, nothing fails.
SpecProgressOK == InitProgress /\ [][NextOK \/ ProgressStep]_vars

\* An exchange in which nothing fails, every task scheduled fairly.
FairSpec ==
    /\ Init
    /\ [][NextOK]_vars
    /\ WF_vars(EWalk \/ ESendEnter \/ ESendDone)
    /\ WF_vars(SRecv \/ SFinEnter \/ SFinDone)
    /\ \A id \in Ids : WF_vars(COpenOK(id) \/ CSendEnter(id) \/ CSendDone(id))
    /\ WF_vars(RRecv \/ RWalkDone)
    /\ WF_vars(DStep \/ DFinish)
    /\ \A p \in Paths :
         WF_vars(FReqEnter(p) \/ FReqDone(p) \/ FCopy(p) \/ FEof(p))
    /\ WF_vars(FinEnter \/ FinDone)

\* ------------------------------------------------------------------ claims
\* The non-empty chunks the sender put on the wire for id, in send order.
SentChunks(id) == IF id \in DOMAIN sentData THEN NonEmpty(sentData[id]) ELSE <<>>

\* The ids under which the sender announced path p.
SenderIds(p) ==
    {id \in DOMAIN sFiles : sFiles[id] = p}
        \cup {id \in DOMAIN cTask : cTask[id].path = p}

\* What reaches a sink is what the sender sent for its id, in send order.
SinksFollowSender ==
    \A id \in DOMAIN pipes :
        /\ IsPrefix(sinkData[id], SentChunks(id))
        /\ pipes[id].closed => sinkData[id] = SentChunks(id)

\* What reaches a destination file is what reached the sink of its fetch.
FilesFollowSinks ==
    \A p \in DOMAIN dest :
        /\ IsPrefix(dest[p].data, sinkData[fetch[p].id])
        /\ dest[p].closed => dest[p].data = sinkData[fetch[p].id]

\* C1 as stated: for any number of concurrently fetched files and any
\* interleaving of their Data messages, each sink gets exactly the chunks the
\* sender sent for its id, in send order, so every fetched file ends
\* content-identical to the source file.
C1_AsStated ==
    /\ SinksFollowSender
    /\ FilesFollowSinks
    /\ \A p \in DOMAIN dest : dest[p].closed => dest[p].data = Content(p)

\* C1, amended: each sink gets exactly the chunks the sender sent for its id,
\* in send order (none from another id, none lost, duplicated or reordered);
\* a fetched file that ends holds the source file's bytes when the sender
\* could open the source file, and no bytes when it could not.
C1_Routing ==
    /\ SinksFollowSender
    /\ FilesFollowSinks
    /\ \A p \in DOMAIN dest :
         dest[p].closed =>
            /\ SenderIds(p) = {fetch[p].id}
            /\ fetch[p].id \in DOMAIN cTask
            /\ dest[p].data = IF cTask[fetch[p].id].opened
                                THEN Content(p) ELSE <<>>

\* C1's case: two files fetched concurrently, chunks of both already in
\* their sinks, and both end complete.
C1_Witness ==
    \E p, q \in DOMAIN dest :
        /\ p # q
        /\ dest[p].closed /\ dest[q].closed
        /\ Len(dest[p].data) = MaxChunks /\ Len(dest[q].data) = MaxChunks
        /\ dest[p].data = Content(p) /\ dest[q].data = Content(q)

\* C2: every id carried by a Request or a Data message was assigned to an
\* earlier Stat message with metadata, and no id is assigned to two Stat
\* messages of the exchange.
C2_IdsAnnounced ==
    /\ \A k \in DOMAIN reqLog : reqLog[k] \in Range(statLog)
    /\ \A k \in DOMAIN r2s : r2s[k].type = "req" => r2s[k].id \in Range(statLog)
    /\ \A id \in DOMAIN sentData : id \in Range(statLog)
    /\ \A k \in DOMAIN s2r : s2r[k].type = "data" => s2r[k].id \in Range(statLog)
    /\ \A j, k \in DOMAIN statLog : j # k => statLog[j] # statLog[k]

\* C2's case: several Stats went out, a Request and a Data for the last id.
C2_Witness ==
    /\ Len(statLog) = MaxEntries
    /\ (MaxEntries - 1) \in Range(reqLog)
    /\ (MaxEntries - 1) \in DOMAIN sentData

\* C3: over a lossless in-order transport, with no error and every task
\* scheduled fairly, every exchange terminates: Send and Receive both
\* return success.
C3_Terminates == <>(sRet = "ok" /\ rRet = "ok")

\* C3's case: both returned success after every entry of a full tree was
\* fetched, each a file of several chunks.
C3_Witness ==
    /\ sRet = "ok" /\ rRet = "ok"
    /\ Cardinality(DOMAIN fetch) = MaxEntries
    /\ \A p \in DOMAIN fetch : Len(dest[p].data) = MaxChunks

\* C4: Receive returns success only after the receiver sent Fin and then
\* received the sender's Fin; Send returns success only after it received a
\* Fin and sent its own; the sender never sends Fin before it received one.
C4_FinHandshake ==
    /\ rRet = "ok" => rFinSent /\ rFinRecv /\ sFinSent
    /\ sRet = "ok" => sFinRecv /\ sFinSent
    /\ sFinSent => sFinRecv
    /\ sFinRecv => rFinSent
    /\ \A k \in DOMAIN s2r : s2r[k].type = "fin" => sFinRecv /\ rFinSent

\* C4's case: both sides returned success.
C4_Witness == sRet = "ok" /\ rRet = "ok" /\ statLog # <<>>

\* The Data payloads the sender put on the wire for id.
Sent(id) == IF id \in DOMAIN sentData THEN sentData[id] ELSE <<>>

\* A content task that is over.
TaskOver(t) == t.pc \in {"done", "err"}

\* C5 as stated: for each Request the sender accepts, the Data messages for
\* the id are the file's non-empty chunks in file order followed by exactly
\* one zero-length Data, none after it, and the chunks concatenate to the
\* file's bytes.
C5_AsStated ==
    \A id \in DOMAIN cTask :
        /\ \A k \in 1..(Len(Sent(id)) - 1) : Sent(id)[k] # <<>>
        /\ IsPrefix(SentChunks(id), Content(cTask[id].path))
        /\ TaskOver(cTask[id]) =>
              Sent(id) = Append(Content(cTask[id].path), <<>>)

\* C5, amended: the Data messages for an accepted id are non-empty chunks of
\* the file in file order, followed by at most one zero-length Data and none
\* after it.  When the file opens and the copy ends without a read or send
\* error, the chunks are the whole file and exactly one zero-length Data
\* follows; when the file does not open, the zero-length Data is the only
\* Data; when the copy or a send fails, no zero-length Data is sent.
C5_Chunks ==
    \A id \in DOMAIN cTask :
        LET t == cTask[id] IN
        /\ \A k \in 1..(Len(Sent(id)) - 1) : Sent(id)[k] # <<>>
        /\ IsPrefix(SentChunks(id), Content(t.path))
        /\ t.pc = "done" =>
              Sent(id) = Append(IF t.opened THEN Content(t.path) ELSE <<>>, <<>>)
        /\ t.pc = "err" => Sent(id) = SentChunks(id)
        /\ t.pc \notin {"done", "err"} => Sent(id) = SentChunks(id)
        /\ ~t.opened => SentChunks(id) = <<>>

\* C5's case: a file of several chunks was sent whole, with its marker.
C5_Witness ==
    \E id \in DOMAIN cTask :
        /\ cTask[id].pc = "done"
        /\ Len(Content(cTask[id].path)) = MaxChunks
        /\ Sent(id) = Append(Content(cTask[id].path), <<>>)

\* The Stat messages with metadata on the wire to the receiver.
StatsInFlight == Len(SelectSeq(s2r, LAMBDA m : m.type = "stat" /\ m.path # 0))

\* C6: the id the receiver records for a path equals the id the sender
\* assigned to that path; both counters start at 0 and advance by one for
\* every announced entry, of any type.
C6_SameIds ==
    /\ \A p \in DOMAIN rFiles : SenderIds(p) = {rFiles[p]}
    /\ \A p \in DOMAIN fetch : SenderIds(p) = {fetch[p].id}
    /\ rI = Len(statLog) - StatsInFlight
    /\ Len(statLog) <= sI /\ sI <= Len(statLog) + 1
    /\ ePc \in {"walk", "last", "inlast", "done"} => sI = Len(statLog)
    /\ \A k \in DOMAIN statLog : statLog[k] = k - 1

\* C6's case: a regular file announced after an entry that is not fetchable
\* is recorded by the receiver, under an id that is not 0.
C6_Witness ==
    \E p \in DOMAIN rFiles :
        /\ rFiles[p] > 0
        /\ \E q \in 1..(p - 1) : ~Fetchable(tree[q].kind)

\* The sender's main loop takes a Request from the stream.
TakesRequest ==
    /\ sPc = "recv"
    /\ r2s # <<>>
    /\ Head(r2s).type = "req"
    /\ r2s' = Tail(r2s)

\* C7: a Request for an id that is not in the transfer table makes Send
\* return "invalid file id", starts no content task and leaves the table
\* unchanged; a Request for an id in the table removes exactly that entry and
\* starts exactly one content task.
C7_Queue ==
    [][TakesRequest =>
         LET id == Head(r2s).id IN
         IF id \notin DOMAIN sFiles
           THEN /\ sRet' = "invalid file id"
                /\ cTask' = cTask
                /\ sFiles' = sFiles
           ELSE /\ sRet' = sRet
                /\ sFiles' = Remove(sFiles, id)
                /\ id \notin DOMAIN cTask
                /\ DOMAIN cTask' = DOMAIN cTask \cup {id}
                /\ \A x \in DOMAIN cTask : cTask'[x] = cTask[x]
                /\ cTask'[id].path = sFiles[id]]_vars

\* C7's case: Send returned "invalid file id" for a Request whose id an
\* earlier Request had consumed.
C7_Witness ==
    /\ sRet = "invalid file id"
    /\ sErrId \in DOMAIN cTask

\* C7's other case: the rejected id was never announced.
C7_NeverAnnounced ==
    /\ sRet = "invalid file id"
    /\ sErrId >= sI

\* C8: on each endpoint at most one task at a time is inside the transport's
\* send; receiving is not behind the lock.
C8_OneSender ==
    /\ Cardinality(sInside) <= 1
    /\ Cardinality(rInside) <= 1
    /\ (sPc = "recv" /\ r2s # <<>>) => ENABLED SRecv
    /\ (rPc = "recv" /\ s2r # <<>>) => ENABLED RRecv

\* C8's case: a content task is inside the send while the emission task or
\* another content task waits for the lock, and the main loop has a message
\* to receive.
C8_Witness ==
    /\ \E id \in DOMAIN cTask :
         /\ ContentTask(id) \in sInside
         /\ \/ ePc \in {"send", "last"}
            \/ \E x \in DOMAIN cTask : cTask[x].pc \in {"send", "term"}
    /\ sPc = "recv" /\ r2s # <<>>

\* C9: if the walk reports an error, or sending a Stat fails, in the
\* emission task, the exchange is aborted and Send returns that error.
\* (Once the emission task has failed and no task can take a step any more,
\* Send has returned an error.)
C9_EmissionErrorReturned ==
    (ePc = "err" /\ ~ENABLED (NextOK)) => sRet \notin {"none", "ok"}

\* C10: if the diff or the disk-apply primitive fails on the receiver side
\* (a fetch callback that returns an error included), Receive returns an
\* error and the receiver does not send Fin.
C10_ReceiverErrorAborts ==
    (dErr \/ cbErr # {} \/ \E p \in DOMAIN fetch : fetch[p].pc = "err")
        => (~rFinSent /\ rRet # "ok")

\* Send has returned to its caller.
SendReturned == sPc = "ret"

\* C11: when a progress callback is supplied, it is invoked with isFinal=true
\* exactly once per Send call, when Send returns (with success or with an
\* error), and that invocation is the last one: no invocation with
\* isFinal=false happens after it.
C11_FinalOnceAndLast ==
    /\ cbFinals <= 1
    /\ SendReturned <=> cbFinals = 1
    /\ cbFinals = 1 => cbLastFinal

\* The content chunks the sender put on the wire for the ids of S.
RECURSIVE ChunksSent(_)
ChunksSent(S) ==
    IF S = {} THEN 0
    ELSE LET id == CHOOSE x \in S : TRUE
         IN Len(SentChunks(id)) + ChunksSent(S \ {id})

\* The sizes of every Stat with metadata and every non-empty chunk emitted.
EmittedSize == Len(statLog) * StatSize + ChunksSent(DOMAIN sentData) * ChunkSize

\* No sender task is running.
SenderIdle ==
    /\ SendReturned
    /\ ePc \in {"done", "err"}
    /\ \A id \in DOMAIN cTask : TaskOver(cTask[id])

\* C12: the count passed to the progress callback never decreases from one
\* invocation to the next, and once all sender tasks are idle it equals the
\* sum of the sizes of every Stat with metadata and every non-empty chunk the
\* sender emitted, also when the emission task and content tasks update the
\* counter concurrently.
C12_CountExact ==
    /\ [][cbPrev' >= cbPrev]_vars
    /\ [](SenderIdle => cbPrev = EmittedSize)

\* The receiver's Fin is being sent or was sent.
ReceiverFin == finPc = "insend" \/ rFinSent

\* C13: the receiver sends Fin only after it received the terminating Stat,
\* the diff task drained its input queue and finished, and all fetches it
\* started completed: when the receiver's Fin is sent, every sink it opened
\* has received its end-of-content marker and no Request is unanswered.
C13_FinAfterFetches ==
    ReceiverFin =>
        /\ walkClosed
        /\ dPc = "done" /\ walkChan = <<>>
        /\ \A p \in DOMAIN fetch : fetch[p].pc = "done"
        /\ \A id \in DOMAIN pipes : pipes[id].closed
        /\ \A k \in DOMAIN reqLog : pipes[reqLog[k]].closed

\* C13 where nothing fails: the same, in an exchange without faults.
C13_NoFault == faults = 0 => C13_FinAfterFetches

\* A Request for the id of an entry that is no regular file starts no
\* content task.
C14_NoTaskForOthers ==
    \A id \in DOMAIN cTask : tree[cTask[id].path].kind = "file"

\* C14: only regular-file entries enter the sender's transfer table: a
\* Request for the id of a directory, symlink, device or named-pipe entry is
\* treated like a Request for an unknown id (Send returns "invalid file id")
\* and no content task is started for it.
C14_RegularFilesOnly ==
    /\ \A id \in DOMAIN sFiles : tree[sFiles[id]].kind = "file"
    /\ C14_NoTaskForOthers

\* The ids for which a fetch was requested.
FetchedIds == {fetch[p].id : p \in DOMAIN fetch}

\* The zero-length Data for id was processed: pw.Close() was called.
MarkerProcessed(id) == id \in DOMAIN pipes /\ pipes[id].closed

\* C15: in every reachable state the receiver's in-flight sink table holds
\* exactly the ids for which a fetch was requested and whose end-of-content
\* marker has not been processed yet: an entry is added when the fetch is
\* requested and removed when the zero-length Data for the id is processed.
C15_SinkTable ==
    DOMAIN pipes = {id \in FetchedIds : ~MarkerProcessed(id)}

\* The receiver's main loop takes a Data message from the stream.
TakesData ==
    /\ rPc = "recv"
    /\ s2r # <<>>
    /\ Head(s2r).type = "data"
    /\ s2r' = Tail(s2r)

\* id has no open sink: no fetch was ever requested for it, or its
\* end-of-content marker was processed.
NoOpenSink(id) == id \notin DOMAIN pipes \/ MarkerProcessed(id)

\* C16: a Data message whose id has no open sink makes Receive return an
\* error and its bytes reach no sink, for non-empty and for zero-length Data
\* alike.
C16_DataWithoutSink ==
    [][(TakesData /\ NoOpenSink(Head(s2r).id)) =>
          /\ rPc' = "ret"
          /\ rRet' \notin {"none", "ok"}
          /\ sinkData' = sinkData]_vars

\* C16 but for a zero-length Data whose id is in the sink table.
C16_Others ==
    [][(TakesData /\ NoOpenSink(Head(s2r).id)
            /\ ~(Head(s2r).data = <<>> /\ Head(s2r).id \in DOMAIN pipes)) =>
          /\ rPc' = "ret"
          /\ rRet' \notin {"none", "ok"}
          /\ sinkData' = sinkData]_vars

\* C17: the receiver sends Request{id} only from a fetch callback that the
\* diff/apply primitive invoked for the path announced under id, and at most
\* once per id; a callback for a path with no pending id (never announced as
\* a transferable entry, or already consumed by an earlier fetch) returns an
\* error without opening a sink, sending a Request or changing the
\* pending-request table.
C17_RequestsFromFetches ==
    /\ [](/\ \A k \in DOMAIN reqLog :
                \E p \in DOMAIN fetch :
                    /\ fetch[p].id = reqLog[k]
                    /\ SenderIds(p) = {reqLog[k]}
                    /\ Fetchable(tree[p].kind)
          /\ \A k \in DOMAIN r2s : r2s[k].type = "req" => r2s[k].id \in Range(reqLog)
          /\ \A j, k \in DOMAIN reqLog : j # k => reqLog[j] # reqLog[k]
          /\ \A p \in DOMAIN fetch : p \notin DOMAIN rFiles
          /\ \A p, q \in DOMAIN fetch : p # q => fetch[p].id # fetch[q].id)
    /\ [][cbErr' # cbErr =>
            /\ \A p \in cbErr' \ cbErr : p \notin DOMAIN rFiles
            /\ pipes' = pipes /\ fetch' = fetch /\ rFiles' = rFiles
            /\ r2s' = r2s /\ reqLog' = reqLog /\ rInside' = rInside]_vars
    /\ [][fetch' # fetch =>
            \A p \in DOMAIN fetch' :
                \/ p \in DOMAIN fetch /\ fetch'[p].id = fetch[p].id
                \/ /\ p \notin DOMAIN fetch /\ p \in DOMAIN rFiles
                   /\ fetch'[p].id = rFiles[p] /\ cbErr' = cbErr]_vars

\* C17's case: a Request went out for a fetched path, and a later callback
\* for the same path, its id consumed, returned the error.
C17_Witness ==
    \E p \in cbErr \cap DOMAIN fetch : fetch[p].id \in Range(reqLog)

\* C17's other case: a callback for an entry never announced as transferable.
C17_NotTransferable == \E p \in cbErr : ~Fetchable(tree[p].kind)

\* The sender put a zero-length Data for id on the wire.
MarkerSent(id) == \E k \in DOMAIN Sent(id) : Sent(id)[k] = <<>>

\* C18: for every Request{id} the sender accepts, provided sends on the
\* transport succeed, a zero-length Data{id} is eventually sent: after the
\* copy when the file opens, and as the only Data message for the id when
\* the file cannot be opened, in which case Send does not fail because of it.
\* (A content task that is over has sent the zero-length Data.)
C18_MarkerSent ==
    \A id \in DOMAIN cTask :
        /\ TaskOver(cTask[id]) =>
              /\ MarkerSent(id)
              /\ ~cTask[id].opened => Sent(id) = << <<>> >>
        /\ sRet \in {"none", "ok"}

\* C18 where the file does not open: the zero-length Data is the only Data.
C18_OpenFailed ==
    \A id \in DOMAIN cTask :
        /\ (TaskOver(cTask[id]) /\ ~cTask[id].opened) => Sent(id) = << <<>> >>
        /\ sRet \in {"none", "ok"}

\* A sender task puts a Stat or a Data message on the stream.
PutsStatOrData ==
    /\ Len(s2r') = Len(s2r) + 1
    /\ s2r'[Len(s2r')].type \in {"stat", "data"}

\* C19: after Send has returned, on Fin or on an error such as an invalid
\* file id, no sender task puts a further Stat or Data message on the
\* stream: the emission task and every content task started by that Send
\* have stopped.
C19_StoppedOnReturn == [][SendReturned => ~PutsStatOrData]_vars

\* C19 for content tasks alone: none sends a Data after Send has returned.
C19_ContentStopped ==
    [][SendReturned => ~(PutsStatOrData /\ s2r'[Len(s2r')].type = "data")]_vars

\* C20: in an exchange between this Send and this Receive over a lossless
\* in-order transport no protocol-contract error is reachable under any
\* interleaving: the sender records id -> path before the Stat for the id is
\* put on the wire, and the receiver registers the sink for an id before the
\* Request for the id is put on the wire, so Send never returns "invalid
\* file id" and Receive never returns "invalid file request".
C20_NoProtocolError ==
    /\ sRet # "invalid file id"
    /\ rRet # "invalid file request"
    /\ \A id \in Range(statLog) : id \in DOMAIN sFiles \cup DOMAIN cTask
    /\ ePc = "insend" => (sI - 1) \in DOMAIN sFiles
    /\ \A k \in DOMAIN r2s : r2s[k].type = "req" => r2s[k].id \in DOMAIN sFiles
    /\ \A k \in DOMAIN reqLog : reqLog[k] \in DOMAIN pipes
    /\ \A p \in DOMAIN fetch : fetch[p].id \in DOMAIN pipes
    /\ \A k \in DOMAIN s2r : s2r[k].type = "data" => s2r[k].id \in DOMAIN pipes

\* C20's case: every entry of a full tree was requested while the walk was
\* still under way or after it, the Requests were accepted and the Data of
\* each reached its sink up to the end-of-content marker.
C20_Witness ==
    /\ Len(reqLog) = MaxEntries
    /\ \A id \in Ids : id \in DOMAIN cTask /\ id \in DOMAIN pipes
    /\ \A id \in Ids : pipes[id].closed /\ Len(sinkData[id]) = MaxChunks

====
